---- MODULE Spec2Model ----
(***************************************************************************)
(* Ceremony state store, epoch watcher and submission trigger of           *)
(* renderer/shared/providers/validation-context.js.                        *)
(*                                                                         *)
(* null / undefined are encoded by sentinels of the same sort as the       *)
(* values they stand beside: Null (0) for an epoch, NullAnswer (-1) for a  *)
(* flip answer, the empty sequence for a null pics / orders (a present     *)
(* value v is the one-element sequence <<v>>).                             *)
(***************************************************************************)
EXTENDS Integers, Sequences, FiniteSets, Bags, TLC

VARIABLES state, db, epoch, seconds, requests, lastSent, lastEvent,
          lastAction, mounted

vars == <<state, db, epoch, seconds, requests, lastSent, lastEvent,
          lastAction, mounted>>

\* ---------------------------------------------------------------- bounds
MaxEpoch == 2
MaxSeconds == 1
MaxFlips == 2
MaxRequests == 2

\* ------------------------------------------------------------- constants
None == 0
Left == 1
Right == 2
Inappropriate == 3
AnswerType == {None, Left, Right, Inappropriate}

Short == "short"
Long == "long"
SessionType == {Short, Long}

Null == 0
NullAnswer == -1

ShortSession == "ShortSession"
LongSession == "LongSession"
EpochPeriod == {"Other", ShortSession, LongSession}

Min(a, b) == IF a < b THEN a ELSE b
Max(a, b) == IF a > b THEN a ELSE b

\* Array.prototype.slice(start, end) on a zero-based array
sliceIndex(i, len) == IF i < 0 THEN Max(len + i, 0) ELSE Min(i, len)

slice(arr, start, end) ==
  LET from == sliceIndex(start, Len(arr))
      to == sliceIndex(end, Len(arr))
  IN IF from >= to THEN <<>> ELSE SubSeq(arr, from + 1, to)

\* Number.isFinite(answer): null and undefined are not finite
hasAnswer(answer) == answer \in Nat

every(arr) == \A i \in 1..Len(arr) : hasAnswer(arr[i].answer)
some(arr) == \E i \in 1..Len(arr) : hasAnswer(arr[i].answer)

\* ------------------------------------------------------ binary decoding
\* A hex string is a sequence of characters; a hexadecimal digit is its
\* value 0..15 and any other character (the "x" of the "0x" prefix) is 16.
NotHex == 16

\* String.prototype.substring(2)
substring2(hexString) == slice(hexString, 2, Len(hexString))

\* parseInt(byte, 16) stored into a Uint8Array: the leading hexadecimal
\* digits of the one- or two-character group, 0 when there is none (NaN)
parseByte(group) ==
  IF group[1] = NotHex THEN 0
  ELSE IF Len(group) = 1 \/ group[2] = NotHex THEN group[1]
  ELSE group[1] * 16 + group[2]

\* hexString.match(/.{1,2}/g).map(byte => parseInt(byte, 16)); match
\* returns null on the empty string and the map then throws
fromHexString(hexString) ==
  IF Len(hexString) = 0 THEN [ok |-> FALSE, bytes |-> <<>>]
  ELSE [ok |-> TRUE,
        bytes |-> [i \in 1..((Len(hexString) + 1) \div 2) |->
                     parseByte(slice(hexString, 2 * (i - 1), 2 * i))]]

\* rlp decode of the short forms: a byte below 0x80 is itself, 0x80..0xb7
\* starts a string of (b - 0x80) bytes, 0xc0..0xf7 a list whose payload has
\* (b - 0xc0) bytes. An item is [kind, bytes, items]; ok = FALSE is a throw.
BadItem == [ok |-> FALSE, item |-> [kind |-> "str", bytes |-> <<>>, items |-> <<>>], next |-> 0]
StrItem(b) == [kind |-> "str", bytes |-> b, items |-> <<>>]
ListItem(l) == [kind |-> "list", bytes |-> <<>>, items |-> l]

RECURSIVE rlpItem(_, _), rlpList(_, _, _)
rlpItem(input, pos) ==
  IF pos > Len(input) THEN BadItem
  ELSE LET b == input[pos] IN
    IF b < 128 THEN [ok |-> TRUE, item |-> StrItem(<<b>>), next |-> pos + 1]
    ELSE IF b <= 183 THEN
      LET n == b - 128 IN
      IF pos + n > Len(input) THEN BadItem
      ELSE IF n = 1 /\ input[pos + 1] < 128 THEN BadItem
      ELSE [ok |-> TRUE, item |-> StrItem(SubSeq(input, pos + 1, pos + n)),
            next |-> pos + n + 1]
    ELSE IF b >= 192 /\ b <= 247 THEN
      LET n == b - 192 IN
      IF pos + n > Len(input) THEN BadItem
      ELSE LET l == rlpList(input, pos + 1, pos + n) IN
        IF l.ok THEN [ok |-> TRUE, item |-> ListItem(l.items), next |-> pos + n + 1]
        ELSE BadItem
    ELSE BadItem

\* the items that fill input[pos..last] exactly
rlpList(input, pos, last) ==
  IF pos > last THEN [ok |-> pos = last + 1, items |-> <<>>]
  ELSE LET d == rlpItem(input, pos) IN
    IF ~d.ok \/ d.next > last + 1 THEN [ok |-> FALSE, items |-> <<>>]
    ELSE LET rest == rlpList(input, d.next, last) IN
      [ok |-> rest.ok, items |-> IF rest.ok THEN <<d.item>> \o rest.items ELSE <<>>]

\* decode(input): one item that consumes the whole input
decode(input) ==
  LET d == rlpItem(input, 1) IN
  IF d.ok /\ d.next = Len(input) + 1 THEN [ok |-> TRUE, item |-> d.item]
  ELSE [ok |-> FALSE, item |-> BadItem.item]

\* x => x[0] || 0
orderByte(x) == IF Len(x.bytes) = 0 THEN 0 ELSE x.bytes[1]

\* decodedFlip[0] and decodedFlip[1].map(order => order.map(x => x[0] || 0));
\* ok = FALSE when decode throws or decodedFlip[1] is not a list of lists
decodeHex(hex) ==
  LET raw == fromHexString(substring2(hex))
      d == IF raw.ok THEN decode(raw.bytes) ELSE [ok |-> FALSE, item |-> BadItem.item]
      ok == /\ d.ok
            /\ d.item.kind = "list"
            /\ Len(d.item.items) >= 2
            /\ d.item.items[2].kind = "list"
            /\ \A j \in 1..Len(d.item.items[2].items) :
                 d.item.items[2].items[j].kind = "list"
  IN IF ~ok THEN [ok |-> FALSE, pics |-> <<>>, orders |-> <<>>]
     ELSE [ok |-> TRUE,
           pics |-> IF d.item.items[1].kind = "list"
                    THEN [j \in 1..Len(d.item.items[1].items) |-> d.item.items[1].items[j].bytes]
                    ELSE d.item.items[1].bytes,
           orders |-> [j \in 1..Len(d.item.items[2].items) |->
                        [k \in 1..Len(d.item.items[2].items[j].items) |->
                           orderByte(d.item.items[2].items[j].items[k])]]]

\* find returning the last match instead of the first
findLast(hexes, hash) ==
  LET hits == {i \in 1..Len(hexes) : hexes[i].hash = hash} IN
  IF hits = {} THEN <<>>
  ELSE <<hexes[CHOOSE i \in hits : \A j \in hits : i >= j]>>

\* hexes.find(x => x.hash === hash): the first match, <<>> when none
find(hexes, hash) ==
  LET hits == {i \in 1..Len(hexes) : hexes[i].hash = hash} IN
  IF hits = {} THEN <<>>
  ELSE <<hexes[CHOOSE i \in hits : \A j \in hits : i <= j]>>

\* one flip of decodeFlips; ok = FALSE when its record does not decode
decodeFlip(entry, hexes) ==
  LET hex == find(hexes, entry.hash) IN
  IF hex # <<>> THEN
    LET d == decodeHex(hex[1].hex) IN
    [ok |-> d.ok,
     flip |-> [hash |-> entry.hash, ready |-> entry.ready,
               pics |-> IF d.ok THEN <<d.pics>> ELSE <<>>,
               orders |-> IF d.ok THEN <<d.orders>> ELSE <<>>,
               answer |-> NullAnswer]]
  ELSE
    [ok |-> TRUE,
     flip |-> [hash |-> entry.hash, ready |-> entry.ready,
               pics |-> <<>>, orders |-> <<>>, answer |-> NullAnswer]]

\* hashes.map(...): the throw of any element aborts the whole map
decodeFlips(hashes, hexes) ==
  [ok |-> \A i \in 1..Len(hashes) : decodeFlip(hashes[i], hexes).ok,
   flips |-> [i \in 1..Len(hashes) |-> decodeFlip(hashes[i], hexes).flip]]

\* ------------------------------------------------- ceremony state store
initialCeremonyState ==
  [hashes |-> <<>>, flips |-> <<>>, loading |-> TRUE, currentIndex |-> 0,
   canSubmit |-> FALSE]

initialState ==
  [shortAnswers |-> <<>>, longAnswers |-> <<>>, epoch |-> Null,
   shortAnswersSubmitted |-> FALSE, longAnswersSubmitted |-> FALSE,
   hashes |-> initialCeremonyState.hashes,
   flips |-> initialCeremonyState.flips,
   loading |-> initialCeremonyState.loading,
   currentIndex |-> initialCeremonyState.currentIndex,
   canSubmit |-> initialCeremonyState.canSubmit,
   error |-> ""]

\* {...st, ...initialCeremonyState}
resetCeremony(st) ==
  [st EXCEPT !.hashes = initialCeremonyState.hashes,
             !.flips = initialCeremonyState.flips,
             !.loading = initialCeremonyState.loading,
             !.currentIndex = initialCeremonyState.currentIndex,
             !.canSubmit = initialCeremonyState.canSubmit]

\* case LOAD_VALIDATION: {...state, ...action.validation}
loadValidation(st, validation) ==
  [st EXCEPT !.shortAnswers = validation.shortAnswers,
             !.longAnswers = validation.longAnswers,
             !.epoch = validation.epoch,
             !.shortAnswersSubmitted = validation.shortAnswersSubmitted,
             !.longAnswersSubmitted = validation.longAnswersSubmitted]

\* SUBMIT_SHORT_ANSWERS without the spread of initialCeremonyState
reduceSubmitShortAnswersKeepsCeremony(st, answers, e) ==
  [st EXCEPT !.shortAnswers = answers, !.epoch = e,
             !.shortAnswersSubmitted = TRUE]

\* case SUBMIT_SHORT_ANSWERS
reduceSubmitShortAnswers(st, answers, e) ==
  resetCeremony([st EXCEPT !.shortAnswers = answers, !.epoch = e,
                           !.shortAnswersSubmitted = TRUE])

\* case SUBMIT_LONG_ANSWERS
reduceSubmitLongAnswers(st, answers, e) ==
  resetCeremony([st EXCEPT !.longAnswers = answers, !.epoch = e,
                           !.longAnswersSubmitted = TRUE])

\* case RESET_EPOCH
reduceResetEpoch(st, e) ==
  resetCeremony([st EXCEPT !.shortAnswers = <<>>, !.longAnswers = <<>>,
                           !.epoch = e,
                           !.shortAnswersSubmitted = FALSE,
                           !.longAnswersSubmitted = FALSE])

\* case START_FETCH_FLIPS
reduceStartFetchFlips(st) == [st EXCEPT !.loading = TRUE]

\* FETCH_FLIPS_SUCCEEDED appending the decoded flips to the ones in the store
reduceFetchFlipsAppended(st, hashes, hexes) ==
  [st EXCEPT !.flips = st.flips \o decodeFlips(hashes, hexes).flips,
             !.loading = FALSE]

\* case FETCH_FLIPS_SUCCEEDED (state.hashes is not assigned)
reduceFetchFlipsSucceeded(st, hashes, hexes) ==
  [st EXCEPT !.flips = decodeFlips(hashes, hexes).flips, !.loading = FALSE]

\* case FETCH_MISSING_FLIPS_SUCCEEDED
reduceFetchMissingFlipsSucceeded(st, hexes) ==
  [st EXCEPT !.flips = decodeFlips(st.hashes, hexes).flips, !.loading = FALSE]

\* case FETCH_FLIPS_FAILED
reduceFetchFlipsFailed(st, error) ==
  [st EXCEPT !.loading = TRUE, !.error = error]

\* case PREV
reducePrev(st) == [st EXCEPT !.currentIndex = Max(st.currentIndex - 1, 0)]

\* case NEXT
reduceNext(st) ==
  [st EXCEPT !.currentIndex = Min(st.currentIndex + 1, Len(st.flips) - 1)]

\* case PICK
reducePick(st, index) == [st EXCEPT !.currentIndex = index]

\* {...state.flips[state.currentIndex], answer}: spreading undefined (an
\* index outside the array) gives an object with the answer alone
withAnswer(flips, index, answer) ==
  IF index >= 0 /\ index < Len(flips)
  THEN [flips[index + 1] EXCEPT !.answer = answer]
  ELSE [hash |-> "undefined", ready |-> FALSE, pics |-> <<>>, orders |-> <<>>,
        answer |-> answer]

\* [...flips.slice(0, currentIndex), {...}, ...flips.slice(currentIndex + 1)]
replaceAnswer(flips, index, answer) ==
  slice(flips, 0, index) \o <<withAnswer(flips, index, answer)>>
    \o slice(flips, index + 1, Len(flips))

\* ANSWER with canSubmit computed by some instead of every
reduceAnswerSome(st, option) ==
  LET flips == replaceAnswer(st.flips, st.currentIndex, option) IN
  [st EXCEPT !.flips = flips, !.canSubmit = some(flips)]

\* case ANSWER
reduceAnswer(st, option) ==
  LET flips == replaceAnswer(st.flips, st.currentIndex, option) IN
  [st EXCEPT !.flips = flips, !.canSubmit = every(flips)]

\* REPORT_ABUSE that keeps an answer the flip already has
reduceReportAbuseKeeps(st) ==
  LET flips == IF st.currentIndex >= 0 /\ st.currentIndex < Len(st.flips)
                  /\ hasAnswer(st.flips[st.currentIndex + 1].answer)
               THEN st.flips
               ELSE replaceAnswer(st.flips, st.currentIndex, Inappropriate)
  IN [st EXCEPT !.flips = flips,
                !.currentIndex = Min(st.currentIndex + 1, Len(st.flips) - 1),
                !.canSubmit = every(flips)]

\* case REPORT_ABUSE
reduceReportAbuse(st) ==
  LET flips == replaceAnswer(st.flips, st.currentIndex, Inappropriate) IN
  [st EXCEPT !.flips = flips,
             !.currentIndex = Min(st.currentIndex + 1, Len(st.flips) - 1),
             !.canSubmit = every(flips)]

\* ---------------------------------------------------- persistence bridge
\* db.resetValidation(epoch)
resetValidation(e) ==
  [shortAnswers |-> <<>>, longAnswers |-> <<>>, epoch |-> e,
   shortAnswersSubmitted |-> FALSE, longAnswersSubmitted |-> FALSE]

\* db.setShortAnswers(payload, epoch)
setShortAnswers(d, payload, e) ==
  [d EXCEPT !.shortAnswers = payload, !.epoch = e, !.shortAnswersSubmitted = TRUE]

\* db.setLongAnswers(payload, epoch)
setLongAnswers(d, payload, e) ==
  [d EXCEPT !.longAnswers = payload, !.epoch = e, !.longAnswersSubmitted = TRUE]

\* ---------------------------------------------------- submission trigger
\* useEpochState() before the first report
NullEpoch == [epoch |-> Null, currentPeriod |-> "null"]

prepareAnswers(flips) ==
  [i \in 1..Len(flips) |->
     [answer |-> IF hasAnswer(flips[i].answer) THEN flips[i].answer ELSE 0,
      easy |-> FALSE]]

\* the branch of the submission effect taken for (state, epoch, seconds)
sessionToSend(st, ep, sec) ==
  IF sec = 1 THEN
    IF ep.currentPeriod = ShortSession /\ st.shortAnswersSubmitted /\ some(st.flips)
    THEN Short
    ELSE IF ep.currentPeriod = LongSession /\ st.longAnswersSubmitted /\ some(st.flips)
    THEN Long
    ELSE "none"
  ELSE "none"

\* sendAnswers(type) up to the await of the transport call: the payload is
\* prepared from state.shortAnswers / state.longAnswers and the call issued
sendAnswers(type, st, ep) ==
  [type |-> type,
   payload |-> IF type = Short THEN prepareAnswers(st.shortAnswers)
               ELSE prepareAnswers(st.longAnswers),
   epoch |-> ep.epoch]

\* one run of the submission effect: the bag of transport calls in flight
\* after it
runEffect(st, ep, sec, reqs) ==
  LET type == sessionToSend(st, ep, sec) IN
  IF type = "none" THEN reqs ELSE reqs (+) SetToBag({sendAnswers(type, st, ep)})

\* ------------------------------------------------------------ inputs
HashA == [hash |-> "a", ready |-> TRUE]
HashB == [hash |-> "b", ready |-> FALSE]
HashLists == {<<>>, <<HashA>>, <<HashA, HashB>>}

\* "0x" c6 c1 41 c3 c2 80 01: pics ["A"], orders [[0, 1]]
HexA == <<0, NotHex, 12, 6, 12, 1, 4, 1, 12, 3, 12, 2, 8, 0, 0, 1>>
\* "0x" c6 c1 42 c3 c2 01 80: pics ["B"], orders [[1, 0]]
HexB == <<0, NotHex, 12, 6, 12, 1, 4, 2, 12, 3, 12, 2, 0, 1, 8, 0>>
ContentA == [hash |-> "a", hex |-> HexA]
ContentB == [hash |-> "b", hex |-> HexB]
\* "0x" c1 41: a list of one item, decodedFlip[1] is undefined
HexBad == <<0, NotHex, 12, 1, 4, 1>>
\* a second record under the hash of ContentA, and a record that does not decode
ContentA2 == [hash |-> "a", hex |-> HexB]
ContentBad == [hash |-> "b", hex |-> HexBad]
HexLists ==
  {<<>>, <<ContentA>>, <<ContentB, ContentA>>, <<ContentA, ContentA2>>,
   <<ContentA, ContentBad>>}

AnswerOptions == {None, Left}

Answered == <<[answer |-> Left, easy |-> FALSE]>>

\* what earlier runs can have left in the validation database
Snapshots ==
  {resetValidation(Null), resetValidation(1),
   setShortAnswers(resetValidation(1), Answered, 1),
   setLongAnswers(setShortAnswers(resetValidation(1), Answered, 1), Answered, 1)}

\* ------------------------------------------------------------ actions
\* the fields of the action object last dispatched; an action without
\* fields, and a step that dispatches nothing, leave NoAction
NoAction == [hashes |-> <<>>, hexes |-> <<>>, answers |-> <<>>, epoch |-> Null]

Init ==
  /\ state = initialState
  /\ db \in Snapshots
  /\ epoch \in {NullEpoch, [epoch |-> 1, currentPeriod |-> ShortSession]}
  /\ seconds = 0
  /\ requests = EmptyBag
  /\ lastSent = "none"
  /\ lastEvent = "Init"
  /\ lastAction = NoAction
  /\ mounted = FALSE

\* a dispatch from outside the provider: the reducer step, then the
\* submission effect re-run for the new state object
DispatchWith(event, action, st) ==
  /\ mounted
  /\ BagCardinality(runEffect(st, epoch, seconds, requests)) <= MaxRequests
  /\ state' = st
  /\ requests' = runEffect(st, epoch, seconds, requests)
  /\ lastSent' = sessionToSend(st, epoch, seconds)
  /\ lastEvent' = event
  /\ lastAction' = action
  /\ UNCHANGED <<db, epoch, seconds, mounted>>

Dispatch(event, st) == DispatchWith(event, NoAction, st)

\* the effects of the first render: LOAD_VALIDATION, the epoch effect, and
\* the submission effect, which finds no flips in the initial state nor in
\* the loaded one
Mount ==
  /\ ~mounted
  /\ LET loaded == loadValidation(state, db)
         reset == epoch # NullEpoch /\ epoch.epoch # db.epoch
     IN /\ db' = IF reset THEN resetValidation(epoch.epoch) ELSE db
        /\ state' = IF reset THEN reduceResetEpoch(loaded, epoch.epoch) ELSE loaded
  /\ mounted' = TRUE
  /\ lastSent' = "none"
  /\ lastEvent' = "Mount"
  /\ lastAction' =
       IF epoch # NullEpoch /\ epoch.epoch # db.epoch
       THEN [NoAction EXCEPT !.epoch = epoch.epoch] ELSE NoAction
  /\ UNCHANGED <<epoch, seconds, requests>>

\* the epoch effect without the comparison with the saved epoch: every
\* report of the notifier resets
EpochChangeResets(ep) ==
  /\ mounted
  /\ ep # epoch
  /\ ep.epoch >= epoch.epoch
  /\ LET st == reduceResetEpoch(state, ep.epoch)
         first == runEffect(state, ep, seconds, requests)
         second == runEffect(st, ep, seconds, first)
     IN /\ BagCardinality(second) <= MaxRequests
        /\ db' = resetValidation(ep.epoch)
        /\ state' = st
        /\ requests' = second
        /\ lastSent' = sessionToSend(st, ep, seconds)
        /\ lastEvent' = "ResetEpoch"
        /\ lastAction' = [NoAction EXCEPT !.epoch = ep.epoch]
  /\ epoch' = ep
  /\ UNCHANGED <<seconds, mounted>>

\* the notifier reports a new value: the epoch effect and the submission
\* effect run for the state of that render, and the submission effect runs
\* again after RESET_EPOCH is reduced
EpochChange(ep) ==
  /\ mounted
  /\ ep # epoch
  /\ ep.epoch >= epoch.epoch
  /\ LET reset == ep.epoch # db.epoch
         st == IF reset THEN reduceResetEpoch(state, ep.epoch) ELSE state
         first == runEffect(state, ep, seconds, requests)
         second == IF reset THEN runEffect(st, ep, seconds, first) ELSE first
     IN /\ BagCardinality(second) <= MaxRequests
        /\ db' = IF reset THEN resetValidation(ep.epoch) ELSE db
        /\ state' = st
        /\ requests' = second
        /\ lastSent' = sessionToSend(st, ep, seconds)
        /\ lastEvent' = IF reset THEN "ResetEpoch" ELSE "EpochChange"
        /\ lastAction' =
             IF reset THEN [NoAction EXCEPT !.epoch = ep.epoch] ELSE NoAction
  /\ epoch' = ep
  /\ UNCHANGED <<seconds, mounted>>

\* the timer reports a new number of seconds left in the period
Tick ==
  /\ mounted
  /\ epoch # NullEpoch
  /\ LET sec == IF seconds > 0 THEN seconds - 1 ELSE MaxSeconds
     IN /\ BagCardinality(runEffect(state, epoch, sec, requests)) <= MaxRequests
        /\ seconds' = sec
        /\ requests' = runEffect(state, epoch, sec, requests)
        /\ lastSent' = sessionToSend(state, epoch, sec)
  /\ lastEvent' = "Tick"
  /\ lastAction' = NoAction
  /\ UNCHANGED <<state, db, epoch, mounted>>

StartFetchFlips == Dispatch("StartFetchFlips", reduceStartFetchFlips(state))

\* a record that does not decode makes the reducer throw: no next state
FetchFlipsSucceeded(hashes, hexes) ==
  /\ decodeFlips(hashes, hexes).ok
  /\ DispatchWith("FetchFlipsSucceeded",
                  [NoAction EXCEPT !.hashes = hashes, !.hexes = hexes],
                  reduceFetchFlipsSucceeded(state, hashes, hexes))

\* FETCH_FLIPS_SUCCEEDED with a record that does not decode: decodeFlips
\* throws inside the reducer, which returns no state and the store keeps
\* the one it has
FetchFlipsThrows(hashes, hexes) ==
  /\ mounted
  /\ ~decodeFlips(hashes, hexes).ok
  /\ lastEvent' = "FetchFlipsThrew"
  /\ lastAction' = [NoAction EXCEPT !.hashes = hashes, !.hexes = hexes]
  /\ UNCHANGED <<state, db, epoch, seconds, requests, lastSent, mounted>>

FetchMissingFlipsSucceeded(hexes) ==
  /\ decodeFlips(state.hashes, hexes).ok
  /\ DispatchWith("FetchMissingFlipsSucceeded",
                  [NoAction EXCEPT !.hexes = hexes],
                  reduceFetchMissingFlipsSucceeded(state, hexes))

FetchFlipsFailed == Dispatch("FetchFlipsFailed", reduceFetchFlipsFailed(state, "error"))

Prev == Dispatch("Prev", reducePrev(state))

Next_ == Dispatch("Next", reduceNext(state))

Pick(index) == Dispatch("Pick", reducePick(state, index))

\* the callers answer the flip on display: flips is not empty
Answer(option) ==
  /\ state.flips # <<>>
  /\ Len(reduceAnswer(state, option).flips) <= MaxFlips
  /\ Dispatch("Answer", reduceAnswer(state, option))

ReportAbuse ==
  /\ state.flips # <<>>
  /\ Len(reduceReportAbuse(state).flips) <= MaxFlips
  /\ Dispatch("ReportAbuse", reduceReportAbuse(state))

\* submitShortAnswers without the call of db.setShortAnswers
submitShortAnswersUnpersisted(r) ==
  /\ BagIn(r, requests)
  /\ r.type = Short
  /\ LET st == reduceSubmitShortAnswers(state, r.payload, r.epoch)
     IN /\ state' = st
        /\ requests' = runEffect(st, epoch, seconds, requests (-) SetToBag({r}))
        /\ lastSent' = sessionToSend(st, epoch, seconds)
  /\ lastEvent' = "SubmitShortAnswers"
  /\ lastAction' = [NoAction EXCEPT !.answers = r.payload, !.epoch = r.epoch]
  /\ UNCHANGED <<db, epoch, seconds, mounted>>

\* submitShortAnswers after the await: the transport call r resolved, the
\* payload is persisted and SUBMIT_SHORT_ANSWERS dispatched
submitShortAnswers(r) ==
  /\ BagIn(r, requests)
  /\ r.type = Short
  /\ db' = setShortAnswers(db, r.payload, r.epoch)
  /\ LET st == reduceSubmitShortAnswers(state, r.payload, r.epoch)
     IN /\ state' = st
        /\ requests' = runEffect(st, epoch, seconds, requests (-) SetToBag({r}))
        /\ lastSent' = sessionToSend(st, epoch, seconds)
  /\ lastEvent' = "SubmitShortAnswers"
  /\ lastAction' = [NoAction EXCEPT !.answers = r.payload, !.epoch = r.epoch]
  /\ UNCHANGED <<epoch, seconds, mounted>>

\* submitLongAnswers after the await
submitLongAnswers(r) ==
  /\ BagIn(r, requests)
  /\ r.type = Long
  /\ db' = setLongAnswers(db, r.payload, r.epoch)
  /\ LET st == reduceSubmitLongAnswers(state, r.payload, r.epoch)
     IN /\ state' = st
        /\ requests' = runEffect(st, epoch, seconds, requests (-) SetToBag({r}))
        /\ lastSent' = sessionToSend(st, epoch, seconds)
  /\ lastEvent' = "SubmitLongAnswers"
  /\ lastAction' = [NoAction EXCEPT !.answers = r.payload, !.epoch = r.epoch]
  /\ UNCHANGED <<epoch, seconds, mounted>>

\* a rejection that is swallowed: the function goes on to persist and dispatch
submitRejectedDispatches(r) ==
  /\ BagIn(r, requests)
  /\ db' = IF r.type = Short THEN setShortAnswers(db, r.payload, r.epoch)
           ELSE setLongAnswers(db, r.payload, r.epoch)
  /\ state' = IF r.type = Short
              THEN reduceSubmitShortAnswers(state, r.payload, r.epoch)
              ELSE reduceSubmitLongAnswers(state, r.payload, r.epoch)
  /\ requests' = requests (-) SetToBag({r})
  /\ lastEvent' = "Rejected"
  /\ lastAction' = NoAction
  /\ UNCHANGED <<epoch, seconds, lastSent, mounted>>

\* the transport call r rejected: the await throws and the function ends
submitRejected(r) ==
  /\ BagIn(r, requests)
  /\ requests' = requests (-) SetToBag({r})
  /\ lastEvent' = "Rejected"
  /\ lastAction' = NoAction
  /\ UNCHANGED <<state, db, epoch, seconds, lastSent, mounted>>

\* SUBMIT_SHORT_ANSWERS, SUBMIT_LONG_ANSWERS and RESET_EPOCH as events of the
\* reducer alone
SubmitShortAnswersEvent(answers, e) ==
  DispatchWith("SubmitShortAnswers",
               [NoAction EXCEPT !.answers = answers, !.epoch = e],
               reduceSubmitShortAnswers(state, answers, e))

SubmitLongAnswersEvent(answers, e) ==
  DispatchWith("SubmitLongAnswers",
               [NoAction EXCEPT !.answers = answers, !.epoch = e],
               reduceSubmitLongAnswers(state, answers, e))

ResetEpochEvent(e) ==
  DispatchWith("ResetEpoch", [NoAction EXCEPT !.epoch = e],
               reduceResetEpoch(state, e))

\* ------------------------------------------------------ specifications
\* The provider: notifier, timer, transport and the user's events. The
\* events that only set loading and error are left to SpecStore.
SessionHashLists == {<<HashA>>}
SessionHexLists == {<<ContentA>>}
SessionOptions == {Left}

Next ==
  \/ Mount
  \/ \E e \in 1..MaxEpoch, p \in EpochPeriod :
       EpochChange([epoch |-> e, currentPeriod |-> p])
  \/ Tick
  \/ \E hashes \in SessionHashLists, hexes \in SessionHexLists :
       FetchFlipsSucceeded(hashes, hexes)
  \/ \E hexes \in SessionHexLists : FetchMissingFlipsSucceeded(hexes)
  \/ Prev
  \/ Next_
  \/ \E index \in 0..(Len(state.flips) - 1) : Pick(index)
  \/ \E option \in SessionOptions : Answer(option)
  \/ ReportAbuse
  \/ \E r \in BagToSet(requests) : submitShortAnswers(r)
  \/ \E r \in BagToSet(requests) : submitLongAnswers(r)
  \/ \E r \in BagToSet(requests) : submitRejected(r)

Spec == Init /\ [][Next]_vars

\* The reducer alone, under every sequence of its events: the store of a
\* provider mounted on an empty database, with no epoch reported and the
\* timer not started.
InitStore ==
  /\ state = initialState
  /\ db = resetValidation(Null)
  /\ epoch = NullEpoch
  /\ seconds = 0
  /\ requests = EmptyBag
  /\ lastSent = "none"
  /\ lastEvent = "Mount"
  /\ lastAction = NoAction
  /\ mounted = TRUE

NextStore ==
  \/ StartFetchFlips
  \/ \E hashes \in HashLists, hexes \in HexLists : FetchFlipsSucceeded(hashes, hexes)
  \/ \E hashes \in HashLists, hexes \in HexLists : FetchFlipsThrows(hashes, hexes)
  \/ \E hexes \in HexLists : FetchMissingFlipsSucceeded(hexes)
  \/ FetchFlipsFailed
  \/ Prev
  \/ Next_
  \/ \E index \in 0..(Len(state.flips) - 1) : Pick(index)
  \/ \E option \in AnswerOptions : Answer(option)
  \/ ReportAbuse
  \/ \E e \in 1..MaxEpoch : SubmitShortAnswersEvent(Answered, e)
  \/ \E e \in 1..MaxEpoch : SubmitLongAnswersEvent(Answered, e)
  \/ \E e \in 1..MaxEpoch : ResetEpochEvent(e)

SpecStore == InitStore /\ [][NextStore]_vars

\* ------------------------------------------------------------- claims
\* lastSent is what the submission effect did the last time it ran; every
\* change of state, epoch or seconds runs it, so it ran for the current ones.

\* C1: the trigger never sends a session whose submitted flag is already
\* true, and no session of an epoch is submitted a second time: a SUBMIT
\* event for the epoch of the store finds the session's flag false.
C1_AtMostOncePerSession ==
  [][/\ lastSent' = Short => ~state'.shortAnswersSubmitted
     /\ lastSent' = Long => ~state'.longAnswersSubmitted
     /\ (lastEvent' = "SubmitShortAnswers" /\ state'.epoch = state.epoch)
          => ~state.shortAnswersSubmitted
     /\ (lastEvent' = "SubmitLongAnswers" /\ state'.epoch = state.epoch)
          => ~state.longAnswersSubmitted]_vars

\* C2: a run of the trigger with one second left, the session's period
\* reported, its submitted flag false and some real answer sends that session.
C2_SendsOnLastSecond ==
  /\ (/\ seconds = 1
      /\ epoch.currentPeriod = ShortSession
      /\ ~state.shortAnswersSubmitted
      /\ some(state.flips)) => lastSent = Short
  /\ (/\ seconds = 1
      /\ epoch.currentPeriod = LongSession
      /\ ~state.longAnswersSubmitted
      /\ some(state.flips)) => lastSent = Long

\* C3: the payload the trigger sends has one entry per flip of the current
\* session, the flip's answer when it is real and 0 when it is unanswered.
C3_PayloadFromFlips ==
  (lastSent # "none" /\ lastEvent # "Rejected") =>
    \E r \in BagToSet(requests) :
      /\ r.type = lastSent
      /\ r.epoch = epoch.epoch
      /\ Len(r.payload) = Len(state.flips)
      /\ \A i \in 1..Len(state.flips) :
           r.payload[i] =
             [answer |-> IF hasAnswer(state.flips[i].answer)
                         THEN state.flips[i].answer ELSE 0,
              easy |-> FALSE]

\* C4: SUBMIT_SHORT_ANSWERS (SUBMIT_LONG_ANSWERS) is reduced only for a
\* transport call that was in flight and resolved, with the payload and
\* epoch it reduces already persisted; a submitted flag of the mounted store
\* always has its record in the database.
C4_SubmitAfterPersist ==
  [][/\ lastEvent' = "SubmitShortAnswers" =>
          /\ \E r \in BagToSet(requests) :
               /\ r.type = Short
               /\ r.payload = state'.shortAnswers
               /\ r.epoch = state'.epoch
               /\ CopiesIn(r, requests') = CopiesIn(r, requests) - 1
          /\ db'.shortAnswers = state'.shortAnswers
          /\ db'.epoch = state'.epoch
     /\ lastEvent' = "SubmitLongAnswers" =>
          /\ \E r \in BagToSet(requests) :
               /\ r.type = Long
               /\ r.payload = state'.longAnswers
               /\ r.epoch = state'.epoch
               /\ CopiesIn(r, requests') = CopiesIn(r, requests) - 1
          /\ db'.longAnswers = state'.longAnswers
          /\ db'.epoch = state'.epoch
     /\ (mounted' /\ state'.shortAnswersSubmitted) =>
          (db'.shortAnswersSubmitted /\ db'.shortAnswers = state'.shortAnswers)
     /\ (mounted' /\ state'.longAnswersSubmitted) =>
          (db'.longAnswersSubmitted /\ db'.longAnswers = state'.longAnswers)]_vars

C4_Witness ==
  /\ lastEvent = "SubmitShortAnswers"
  /\ state.shortAnswersSubmitted
  /\ state.epoch = 1
  /\ epoch.epoch = 2
  /\ db.shortAnswers = state.shortAnswers

\* C5: while a submission of a session is in flight the trigger issues no
\* second one for the same session.
C5_OneInFlight ==
  \A r1, r2 \in BagToSet(requests) :
    (r1.type = r2.type /\ r1.epoch = r2.epoch)
      => (r1 = r2 /\ CopiesIn(r1, requests) = 1)

\* C6: a rejected submission writes nothing to the database, dispatches no
\* event and leaves the store as it was, its submitted flags included.
C6_RejectLeavesStore ==
  [][lastEvent' = "Rejected" =>
       /\ state' = state
       /\ db' = db
       /\ BagCardinality(requests') = BagCardinality(requests) - 1]_vars

C6_Witness ==
  /\ lastEvent = "Rejected"
  /\ ~state.shortAnswersSubmitted
  /\ ~db.shortAnswersSubmitted
  /\ requests = EmptyBag

\* C7: with a notifier whose epoch never decreases, the epoch of the store
\* never decreases once set.
C7_EpochMonotonic ==
  [][state.epoch # Null => state'.epoch >= state.epoch]_vars

C9_CanSubmitFollowsAnswers ==
  /\ (/\ lastEvent \in {"FetchFlipsSucceeded", "FetchMissingFlipsSucceeded",
                        "Pick", "Next", "Prev", "Answer"}
      /\ state.flips # <<>>) => (state.canSubmit <=> every(state.flips))
  /\ lastEvent \in {"SubmitShortAnswers", "SubmitLongAnswers", "ResetEpoch"} =>
       ~state.canSubmit

\* C10: Next and Prev keep a cursor that is in range, and leave the
\* cursor at 0 when flips is empty.
C10_NextPrevInRange ==
  [][lastEvent' \in {"Next", "Prev"} =>
       /\ (state.flips # <<>> /\ state.currentIndex \in 0..(Len(state.flips) - 1))
            => state'.currentIndex \in 0..(Len(state.flips) - 1)
       /\ (state.flips = <<>> /\ state.currentIndex = 0)
            => state'.currentIndex = 0]_vars

\* C11: with Pick given valid indices only, the cursor is never negative
\* and never beyond the last flip of a non-empty list.
C11_CursorValid ==
  /\ state.currentIndex >= 0
  /\ state.flips # <<>> => state.currentIndex <= Len(state.flips) - 1

\* C12: REPORT_ABUSE on a non-empty list with the cursor i in range sets the
\* answer of flip i to Inappropriate whatever it was, leaves every other
\* flip as it is, moves the cursor to min(i + 1, len - 1) and recomputes
\* canSubmit from the new flips.
C12_ReportAbuseOverwrites ==
  [][(/\ lastEvent' = "ReportAbuse"
      /\ state.flips # <<>>
      /\ state.currentIndex \in 0..(Len(state.flips) - 1)) =>
       /\ Len(state'.flips) = Len(state.flips)
       /\ \A j \in 1..Len(state.flips) :
            state'.flips[j] =
              IF j = state.currentIndex + 1
              THEN [state.flips[j] EXCEPT !.answer = Inappropriate]
              ELSE state.flips[j]
       /\ state'.currentIndex = Min(state.currentIndex + 1, Len(state.flips) - 1)
       /\ state'.canSubmit =
            (\A j \in 1..Len(state'.flips) : state'.flips[j].answer \in Nat)]_vars

C12_Witness ==
  /\ lastEvent = "ReportAbuse"
  /\ Len(state.flips) = 2
  /\ state.flips[1].answer = Left
  /\ state.flips[2].answer = Inappropriate
  /\ state.currentIndex = 1
  /\ state.canSubmit

\* C13: SUBMIT_SHORT_ANSWERS sets shortAnswers, epoch and the short flag from
\* the action, resets hashes, flips, loading, currentIndex and canSubmit to
\* [], [], true, 0, false and leaves longAnswers and longAnswersSubmitted;
\* SUBMIT_LONG_ANSWERS does the same with short and long exchanged.
C13_SubmitFrame ==
  [][/\ lastEvent' = "SubmitShortAnswers" =>
          /\ state'.shortAnswers = lastAction'.answers
          /\ state'.shortAnswersSubmitted
          /\ state'.epoch = lastAction'.epoch
          /\ state'.hashes = <<>> /\ state'.flips = <<>>
          /\ state'.loading /\ state'.currentIndex = 0 /\ ~state'.canSubmit
          /\ state'.longAnswers = state.longAnswers
          /\ state'.longAnswersSubmitted = state.longAnswersSubmitted
     /\ lastEvent' = "SubmitLongAnswers" =>
          /\ state'.longAnswers = lastAction'.answers
          /\ state'.longAnswersSubmitted
          /\ state'.epoch = lastAction'.epoch
          /\ state'.hashes = <<>> /\ state'.flips = <<>>
          /\ state'.loading /\ state'.currentIndex = 0 /\ ~state'.canSubmit
          /\ state'.shortAnswers = state.shortAnswers
          /\ state'.shortAnswersSubmitted = state.shortAnswersSubmitted]_vars

C13_Witness ==
  /\ lastEvent = "SubmitShortAnswers"
  /\ lastAction.epoch = 2
  /\ state.epoch = 2
  /\ state.shortAnswers = Answered
  /\ state.shortAnswersSubmitted
  /\ state.longAnswersSubmitted
  /\ state.longAnswers = Answered
  /\ state.flips = <<>>

\* C14: a report of the notifier dispatches RESET_EPOCH exactly when its
\* epoch differs from the saved one, after the database is reset to it; the
\* event empties both answer lists, clears both flags, sets the epoch and
\* resets the ceremony fields. A report with the saved epoch dispatches
\* nothing and keeps the store and the database; so does the first render.
C14_ResetOnNewEpoch ==
  [][/\ (mounted /\ epoch' # epoch) =>
          IF epoch'.epoch # db.epoch
          THEN /\ lastEvent' = "ResetEpoch"
               /\ lastAction'.epoch = epoch'.epoch
               /\ db' = resetValidation(epoch'.epoch)
               /\ state'.shortAnswers = <<>> /\ state'.longAnswers = <<>>
               /\ ~state'.shortAnswersSubmitted /\ ~state'.longAnswersSubmitted
               /\ state'.epoch = epoch'.epoch
               /\ state'.hashes = <<>> /\ state'.flips = <<>>
               /\ state'.loading /\ state'.currentIndex = 0 /\ ~state'.canSubmit
          ELSE /\ lastEvent' = "EpochChange"
               /\ state' = state
               /\ db' = db
     /\ lastEvent' = "ResetEpoch" => (epoch' # epoch /\ epoch'.epoch # db.epoch)
     /\ (~mounted /\ mounted') =>
          IF epoch # NullEpoch /\ epoch.epoch # db.epoch
          THEN /\ db' = resetValidation(epoch.epoch)
               /\ state'.shortAnswers = <<>> /\ state'.longAnswers = <<>>
               /\ ~state'.shortAnswersSubmitted /\ ~state'.longAnswersSubmitted
               /\ state'.epoch = epoch.epoch
          ELSE /\ db' = db
               /\ state'.shortAnswers = db.shortAnswers
               /\ state'.longAnswers = db.longAnswers
               /\ state'.shortAnswersSubmitted = db.shortAnswersSubmitted
               /\ state'.longAnswersSubmitted = db.longAnswersSubmitted
               /\ state'.epoch = db.epoch]_vars

C14_Witness ==
  /\ lastEvent = "EpochChange"
  /\ epoch = [epoch |-> 1, currentPeriod |-> LongSession]
  /\ state.epoch = 1
  /\ db.epoch = 1
  /\ state.shortAnswersSubmitted
  /\ state.shortAnswers = Answered
  /\ db.shortAnswersSubmitted

\* the content entries with the hash of a requested flip, and the first one
entriesFor(hexes, hash) == {k \in 1..Len(hexes) : hexes[k].hash = hash}
firstEntry(hexes, hash) ==
  CHOOSE k \in entriesFor(hexes, hash) : \A j \in entriesFor(hexes, hash) : k <= j

\* C15: for well-formed records FETCH_FLIPS_SUCCEEDED leaves one flip per
\* entry of the hash list, in its order whatever the order of the content
\* list: flip i has the hash and ready of entry i and no answer, the pics and
\* orders of the first content entry with its hash, and null pics and orders
\* when there is none.
C15_DecodeByHashList ==
  (/\ lastEvent = "FetchFlipsSucceeded"
   /\ \A k \in 1..Len(lastAction.hexes) : decodeHex(lastAction.hexes[k].hex).ok) =>
     /\ Len(state.flips) = Len(lastAction.hashes)
     /\ \A i \in 1..Len(lastAction.hashes) :
          /\ state.flips[i].hash = lastAction.hashes[i].hash
          /\ state.flips[i].ready = lastAction.hashes[i].ready
          /\ state.flips[i].answer = NullAnswer
          /\ IF entriesFor(lastAction.hexes, lastAction.hashes[i].hash) = {}
             THEN state.flips[i].pics = <<>> /\ state.flips[i].orders = <<>>
             ELSE LET hex == lastAction.hexes[
                               firstEntry(lastAction.hexes, lastAction.hashes[i].hash)].hex
                  IN /\ state.flips[i].pics = <<decodeHex(hex).pics>>
                     /\ state.flips[i].orders = <<decodeHex(hex).orders>>

C15_Witness ==
  /\ lastEvent = "FetchFlipsSucceeded"
  /\ lastAction.hashes = <<HashA, HashB>>
  /\ lastAction.hexes = <<ContentA, ContentA2>>
  /\ Len(state.flips) = 2
  /\ state.flips[1].pics = << << <<4 * 16 + 1>> >> >>
  /\ state.flips[1].orders = << << <<0, 1>> >> >>
  /\ state.flips[2].pics = <<>>
  /\ state.flips[2].orders = <<>>
  /\ ~state.flips[2].ready

\* C16: FETCH_FLIPS_SUCCEEDED with a content entry that does not decode still
\* produces a state: one flip per hash, the flips with a well-formed record
\* decoded and the flip of the malformed record left without pics and orders.
C16_DecodeFailureConfined ==
  (/\ lastEvent \in {"FetchFlipsSucceeded", "FetchFlipsThrew"}
   /\ \E i \in 1..Len(lastAction.hashes) :
        /\ entriesFor(lastAction.hexes, lastAction.hashes[i].hash) # {}
        /\ ~decodeHex(lastAction.hexes[
               firstEntry(lastAction.hexes, lastAction.hashes[i].hash)].hex).ok) =>
     /\ lastEvent = "FetchFlipsSucceeded"
     /\ Len(state.flips) = Len(lastAction.hashes)
     /\ \A i \in 1..Len(lastAction.hashes) :
          entriesFor(lastAction.hexes, lastAction.hashes[i].hash) # {} =>
            LET hex == lastAction.hexes[
                         firstEntry(lastAction.hexes, lastAction.hashes[i].hash)].hex
            IN IF decodeHex(hex).ok
               THEN state.flips[i].pics # <<>> /\ state.flips[i].orders # <<>>
               ELSE state.flips[i].pics = <<>> /\ state.flips[i].orders = <<>>

\* C17: FETCH_MISSING_FLIPS_SUCCEEDED in a session a fetch has populated
\* leaves one flip per hash of the session, in the same order, with pics and
\* orders for the hashes its content list has.
C17_MissingKeepsHashList ==
  [][(lastEvent' = "FetchMissingFlipsSucceeded" /\ state.flips # <<>>) =>
       /\ Len(state'.flips) = Len(state.flips)
       /\ \A i \in 1..Len(state.flips) :
            /\ state'.flips[i].hash = state.flips[i].hash
            /\ entriesFor(lastAction'.hexes, state.flips[i].hash) # {} =>
                 (state'.flips[i].pics # <<>> /\ state'.flips[i].orders # <<>>)]_vars

\* C18: FETCH_FLIPS_SUCCEEDED dispatched again with the same hashes and
\* hexes on the state it produced gives the same flips.
C18_FetchIdempotent ==
  [][lastEvent' = "FetchFlipsSucceeded" =>
       reduceFetchFlipsSucceeded(state', lastAction'.hashes, lastAction'.hexes).flips
         = state'.flips]_vars

C18_Witness ==
  /\ lastEvent = "FetchFlipsSucceeded"
  /\ state.canSubmit
  /\ Len(state.flips) = 2
  /\ state.flips[1].pics # <<>>
  /\ state.flips[2].pics # <<>>
  /\ reduceFetchFlipsSucceeded(state, lastAction.hashes, lastAction.hexes).flips
       = state.flips

\* C19: ANSWER on a non-empty list changes the answer of the flip under the
\* cursor and canSubmit only: the list keeps its length, the other flips are
\* the same, the flip under the cursor keeps all but its answer, and the
\* cursor, hashes, loading, epoch, submitted answers and flags are unchanged.
C19_AnswerFrame ==
  [][(lastEvent' = "Answer" /\ state.flips # <<>>) =>
       /\ Len(state'.flips) = Len(state.flips)
       /\ \A j \in 1..Len(state.flips) :
            [state'.flips[j] EXCEPT !.answer =
               IF j = state.currentIndex + 1 THEN NullAnswer ELSE @]
              = [state.flips[j] EXCEPT !.answer =
                   IF j = state.currentIndex + 1 THEN NullAnswer ELSE @]
       /\ state'.currentIndex = state.currentIndex
       /\ state'.hashes = state.hashes
       /\ state'.loading = state.loading
       /\ state'.epoch = state.epoch
       /\ state'.shortAnswers = state.shortAnswers
       /\ state'.longAnswers = state.longAnswers
       /\ state'.shortAnswersSubmitted = state.shortAnswersSubmitted
       /\ state'.longAnswersSubmitted = state.longAnswersSubmitted]_vars

\* C20: a fetch event keeps the answer of every answered flip whose hash is
\* still in the list.
C20_FetchKeepsAnswers ==
  [][lastEvent' \in {"FetchFlipsSucceeded", "FetchMissingFlipsSucceeded"} =>
       \A i \in 1..Len(state.flips), j \in 1..Len(state'.flips) :
         (/\ state.flips[i].hash = state'.flips[j].hash
          /\ hasAnswer(state.flips[i].answer))
           => state'.flips[j].answer = state.flips[i].answer]_vars

====
